---- MODULE Spec2Model ----
(***************************************************************************)
(* count_changes.py: run `git log --shortstat --oneline`, scan its output  *)
(* line by line, add up the insertion and deletion counts, print a three   *)
(* line summary.  Text is modelled as sequences of one-character strings.  *)
(***************************************************************************)
EXTENDS Integers, Sequences, FiniteSets, TLC

\* ---------------------------------------------------------------- bounds
\* Largest number of log lines (commit lines and shortstat lines) in a history.
MaxLines == 2

\* ------------------------------------------------------ character classes
Digits == <<"0", "1", "2", "3", "4", "5", "6", "7", "8", "9">>

\* \d of the regular expressions (ASCII part)
IsDigit(c) == c \in {"0", "1", "2", "3", "4", "5", "6", "7", "8", "9"}

\* \s of the regular expressions (ASCII part)
IsSpace(c) == c \in {" ", "\t", "\n", "\r", "\f"}

DigitVal(c) == (CHOOSE d \in 1..10 : Digits[d] = c) - 1

\* int(match.group(1)): the value of a string of decimal digits
RECURSIVE IntOfPrefix(_, _)
IntOfPrefix(s, k) ==
  IF k = 0 THEN 0 ELSE IntOfPrefix(s, k - 1) * 10 + DigitVal(s[k])

int(s) == IntOfPrefix(s, Len(s))

\* decimal rendering of a natural number
RECURSIVE StrNat(_)
StrNat(n) ==
  IF n < 10 THEN <<Digits[n + 1]>>
  ELSE StrNat(n \div 10) \o <<Digits[(n % 10) + 1]>>

\* f"{n}" for an integer n
Str(n) == IF n < 0 THEN <<"-">> \o StrNat(0 - n) ELSE StrNat(n)

\* ------------------------------------------------------- string helpers
\* line[p:p+len(lit)] == lit
StartsWith(line, p, lit) ==
  /\ p + Len(lit) - 1 <= Len(line)
  /\ \A j \in 1..Len(lit) : line[p + j - 1] = lit[j]

\* sub in line
Contains(sub, line) == \E p \in 1..(Len(line) + 1) : StartsWith(line, p, sub)

\* s.split('\n'): always at least one element
\* element j runs from behind the (j-1)-th newline to before the j-th one
\* (nl: the positions of the newlines of s)
SplitAt(s, nl) ==
  [j \in 1..(Cardinality(nl) + 1) |->
     SubSeq(s,
            IF j = 1 THEN 1
            ELSE (CHOOSE x \in nl : Cardinality({y \in nl : y < x}) = j - 2) + 1,
            IF j = Cardinality(nl) + 1 THEN Len(s)
            ELSE (CHOOSE x \in nl : Cardinality({y \in nl : y < x}) = j - 1) - 1)]

split(s) == CHOOSE r \in {SplitAt(s, nl) : nl \in {{k \in 1..Len(s) : s[k] = "\n"}}} : TRUE

\* ----------------------------------------------------- the two patterns
insertion == <<"i", "n", "s", "e", "r", "t", "i", "o", "n">>
deletion == <<"d", "e", "l", "e", "t", "i", "o", "n">>
insertions == <<"i", "n", "s", "e", "r", "t", "i", "o", "n", "s">>
deletions == <<"d", "e", "l", "e", "t", "i", "o", "n", "s">>
PlusSuffix == <<"(", "+", ")">>
MinusSuffix == <<"(", "-", ")">>

\* variant of TailAt: the plural only
TailAt_noOptionalS(line, q, word, suffix) ==
  /\ StartsWith(line, q, word)
  /\ StartsWith(line, q + Len(word), <<"s">> \o suffix)

\* variant of TailAt: the word alone, without "(+)" / "(-)"
TailAt_noSuffix(line, q, word, suffix) ==
  /\ StartsWith(line, q, word)

\* the tail  word s? \( sign \)  of a pattern, matched at position q
TailAt(line, q, word, suffix) ==
  /\ StartsWith(line, q, word)
  /\ \/ StartsWith(line, q + Len(word), <<"s">> \o suffix)
     \/ StartsWith(line, q + Len(word), suffix)

\* the lengths d of \d+ for which  (\d+)\s+word s?\(sign\)  matches at p
MatchLens(line, p, word, suffix) ==
  IF ~IsDigit(line[p]) THEN {} ELSE
  {d \in 1..(Len(line) - p + 1) :
     /\ \A k \in p..(p + d - 1) : IsDigit(line[k])
     /\ \E w \in 1..(Len(line) - p - d + 1) :
          /\ \A k \in (p + d)..(p + d + w - 1) : IsSpace(line[k])
          /\ TailAt(line, p + d + w, word, suffix)}

SetMax(S) == CHOOSE x \in S : \A y \in S : x >= y

\* the positions at which the pattern matches
MatchStarts(line, word, suffix) ==
  {p \in 1..Len(line) : MatchLens(line, p, word, suffix) # {}}

\* variant of search: the rightmost match
search_rightmost(line, word, suffix) ==
  CHOOSE m \in
    {IF starts = {} THEN <<>>
     ELSE CHOOSE g \in
            {<<SubSeq(line, p, p + SetMax(MatchLens(line, p, word, suffix)) - 1)>> :
               p \in {q \in starts : \A r \in starts : q >= r}} : TRUE :
     starts \in {MatchStarts(line, word, suffix)}} : TRUE

\* re.search(r'(\d+)\s+word s?\(sign\)', line): <<>> is None, otherwise
\* <<group 1>> of the leftmost match, \d+ being greedy
search(line, word, suffix) ==
  CHOOSE m \in
    {IF starts = {} THEN <<>>
     ELSE CHOOSE g \in
            {<<SubSeq(line, p, p + SetMax(MatchLens(line, p, word, suffix)) - 1)>> :
               p \in {q \in starts : \A r \in starts : q <= r}} : TRUE :
     starts \in {MatchStarts(line, word, suffix)}} : TRUE

\* variant of InsertionsPreCheck: the plural only
InsertionsPreCheck_pluralOnly(line) == Contains(insertions, line)

\* 'insertions' in line or 'insertion' in line
InsertionsPreCheck(line) == Contains(insertions, line) \/ Contains(insertion, line)

\* 'deletions' in line or 'deletion' in line
DeletionsPreCheck(line) == Contains(deletions, line) \/ Contains(deletion, line)

\* variant of NextInsertions: = instead of +=
NextInsertions_assign(total, line) ==
  IF InsertionsPreCheck(line)
  THEN CHOOSE r \in {IF match # <<>> THEN int(match[1]) ELSE total :
                      match \in {search(line, insertion, PlusSuffix)}} : TRUE
  ELSE total

\* the first if of the loop body: the new value of total_insertions
\* (match ranges over the one value re.search returns)
NextInsertions(total, line) ==
  IF InsertionsPreCheck(line)
  THEN CHOOSE r \in {IF match # <<>> THEN total + int(match[1]) ELSE total :
                      match \in {search(line, insertion, PlusSuffix)}} : TRUE
  ELSE total

\* variant of NextDeletions: -= instead of +=
NextDeletions_subtract(total, line) ==
  IF DeletionsPreCheck(line)
  THEN CHOOSE r \in {IF match # <<>> THEN total - int(match[1]) ELSE total :
                      match \in {search(line, deletion, MinusSuffix)}} : TRUE
  ELSE total

\* variant of NextDeletions: elif instead of the second if
NextDeletions_elif(total, line) ==
  IF InsertionsPreCheck(line) THEN total
  ELSE IF DeletionsPreCheck(line)
  THEN CHOOSE r \in {IF match # <<>> THEN total + int(match[1]) ELSE total :
                      match \in {search(line, deletion, MinusSuffix)}} : TRUE
  ELSE total

\* the second if of the loop body: the new value of total_deletions
NextDeletions(total, line) ==
  IF DeletionsPreCheck(line)
  THEN CHOOSE r \in {IF match # <<>> THEN total + int(match[1]) ELSE total :
                      match \in {search(line, deletion, MinusSuffix)}} : TRUE
  ELSE total

\* variant of NetChange: the operands exchanged
NetChange_reversed(ti, td) == td - ti

\* total_insertions - total_deletions
NetChange(ti, td) == ti - td

\* the whole loop as a function of the Report: (total_insertions, total_deletions)
RECURSIVE TotalInsertionsAfter(_, _)
TotalInsertionsAfter(ls, k) ==
  IF k = 0 THEN 0 ELSE NextInsertions(TotalInsertionsAfter(ls, k - 1), ls[k])

RECURSIVE TotalDeletionsAfter(_, _)
TotalDeletionsAfter(ls, k) ==
  IF k = 0 THEN 0 ELSE NextDeletions(TotalDeletionsAfter(ls, k - 1), ls[k])

aggregate(ls) == <<TotalInsertionsAfter(ls, Len(ls)), TotalDeletionsAfter(ls, Len(ls))>>

\* variant of LoopDone: the loop stops one element early
LoopDone_early(i, ls) == i >= Len(ls)

\* the for loop has consumed every element of lines
LoopDone(i, ls) == i > Len(ls)

\* ------------------------------------------- the repository being read
\* A log line is a sequence of pieces: free text, or a count phrase as git
\* words it ("<n> insertion(+)", "<n> insertions(+)", likewise deletions).
Junk(t) == [k |-> "junk", n |-> 0, text |-> t]

Phrase(kind, n, ws) ==
  [k |-> kind, n |-> n,
   text |-> Str(n) \o ws
            \o (IF kind = "ins" THEN insertion ELSE deletion)
            \o (IF n = 1 THEN <<>> ELSE <<"s">>)
            \o (IF kind = "ins" THEN PlusSuffix ELSE MinusSuffix)]

\* " <f> file(s) changed[, <a> insertion(s)(+)][, <b> deletion(s)(-)]";
\* a and b are <<>> (absent) or <<n>>
StatLine(f, a, b) ==
  <<Junk(<<" ">> \o Str(f) \o (IF f = 1 THEN <<" ", "f", "i", "l", "e", " ", "c", "h", "a", "n", "g", "e", "d">> ELSE <<" ", "f", "i", "l", "e", "s", " ", "c", "h", "a", "n", "g", "e", "d">>))>>
  \o (IF a # <<>> THEN <<Junk(<<",", " ">>), Phrase("ins", a[1], <<" ">>)>> ELSE <<>>)
  \o (IF b # <<>> THEN <<Junk(<<",", " ">>), Phrase("del", b[1], <<" ">>)>> ELSE <<>>)

\* --oneline commit lines; two of them mention the words without a count phrase
CommitLines ==
  { <<Junk(<<"a", "b", "c", "1", "2", "3", " ", "m", "s", "g">>)>>,
    <<Junk(<<"d", "4", "e", "5", "f", "6", " ", "f", "i", "x", " ", "i", "n", "s", "e", "r", "t", "i", "o", "n", " ", "s", "o", "r", "t">>)>>,
    <<Junk(<<"0", "a", "1", "b", "2", "c", " ", "l", "o", "g", " ", "3", " ", "d", "e", "l", "e", "t", "i", "o", "n", "s", ",", " ", "4", " ", "i", "n", "s", "e", "r", "t", "i", "o", "n", "s">>)>> }

StatLines ==
  { StatLine(1, <<5>>, <<2>>),
    StatLine(1, <<1>>, <<>>),
    StatLine(3, <<>>, <<10>>),
    StatLine(2, <<0>>, <<1>>) }

\* lines that resemble a count phrase and are none
MalformedLines ==
  { <<Junk(<<"5", "i", "n", "s", "e", "r", "t", "i", "o", "n", "s", "(", "+", ")">>)>>,
    <<Junk(<<"5", " ", "I", "n", "s", "e", "r", "t", "i", "o", "n", "s", "(", "+", ")", ",", " ", "2", " ", "d", "e", "l", "e", "t", "i", "o", "n", "s", "s", "(", "-", ")">>)>>,
    <<Junk(<<"5", " ", "i", "n", "s", "e", "r", "t", "i", "o", "n", "s", "(", "-", ")", ",", " ", "2", " ", "d", "e", "l", "e", "t", "i", "o", "n", "s", "(", "+", ")">>)>>,
    <<Junk(<<"x", " ", "i", "n", "s", "e", "r", "t", "i", "o", "n", "s", "(", "+", ")", ",", " ", "2", " ", "d", "e", "l", "e", "t", "i", "o", "n">>)>> }

\* lines with several count phrases of one kind, or unusual spacing
RepeatedLines ==
  { <<Phrase("ins", 1, <<" ">>), Junk(<<",", " ">>), Phrase("ins", 2, <<" ">>)>>,
    <<Phrase("del", 3, <<" ">>), Junk(<<" ">>), Phrase("del", 4, <<" ", " ">>),
      Junk(<<",", " ">>), Phrase("ins", 7, <<" ">>)>>,
    <<Junk(<<"1", " ">>), Phrase("ins", 12, <<"\t", " ">>), Junk(<<"x">>), Phrase("del", 1, <<" ">>)>> }

LineDescs == CommitLines \cup StatLines \cup MalformedLines \cup RepeatedLines

Histories == UNION {[1..n -> LineDescs] : n \in 0..MaxLines}

RECURSIVE ConcatPrefix(_, _)
ConcatPrefix(ss, k) == IF k = 0 THEN <<>> ELSE ConcatPrefix(ss, k - 1) \o ss[k]

Concat(ss) == ConcatPrefix(ss, Len(ss))

LineText(desc) == Concat([j \in 1..Len(desc) |-> desc[j].text])

\* what `git log --shortstat --oneline` writes for a history: every line
\* ends with a newline
GitLog(h) == Concat([j \in 1..Len(h) |-> LineText(h[j]) \o <<"\n">>])

\* ------------------------------------------------------------- the state
VARIABLES
  tool,              \* "ok", "missing" or "not_executable": the git binary
  is_repo,           \* the current directory is a git repository
  history,           \* the log lines of the repository
  pc,                \* "start", "loop", "print_deletions", "print_net", "done", "failed"
  result,            \* <<>> before subprocess.run returns, then <<CompletedProcess>>
  lines,
  idx,               \* position of the for loop in lines
  total_insertions,
  total_deletions,
  output             \* the lines printed on standard output

vars == <<tool, is_repo, history, pc, result, lines, idx,
          total_insertions, total_deletions, output>>

env == <<tool, is_repo, history>>

Init ==
  /\ \/ tool = "ok" /\ is_repo = TRUE /\ history \in Histories
     \/ tool = "ok" /\ is_repo = FALSE /\ history = <<>>
     \/ tool \in {"missing", "not_executable"} /\ is_repo \in BOOLEAN /\ history = <<>>
  /\ pc = "start"
  /\ result = <<>>
  /\ lines = <<>>
  /\ idx = 1
  /\ total_insertions = 0
  /\ total_deletions = 0
  /\ output = <<>>

\* subprocess.run raises FileNotFoundError / PermissionError: the exception
\* is not caught and the interpreter exits with a traceback
RunRaises ==
  /\ pc = "start"
  /\ tool # "ok"
  /\ pc' = "failed"
  /\ UNCHANGED <<env, result, lines, idx, total_insertions, total_deletions, output>>

\* subprocess.run returns (no check=True: the return code is not looked at),
\* stdout is split, the counters are set to zero
Run ==
  /\ pc = "start"
  /\ tool = "ok"
  /\ \E stdout \in {IF is_repo THEN GitLog(history) ELSE <<>>} :
       /\ result' = <<[returncode |-> IF is_repo THEN 0 ELSE 128, stdout |-> stdout]>>
       /\ lines' = split(stdout)
  /\ total_insertions' = 0
  /\ total_deletions' = 0
  /\ idx' = 1
  /\ pc' = "loop"
  /\ UNCHANGED <<env, output>>

\* one iteration of the for loop
ScanLine ==
  /\ pc = "loop"
  /\ ~LoopDone(idx, lines)
  /\ total_insertions' = NextInsertions(total_insertions, lines[idx])
  /\ total_deletions' = NextDeletions(total_deletions, lines[idx])
  /\ idx' = idx + 1
  /\ UNCHANGED <<env, pc, result, lines, output>>

PrintInsertions ==
  /\ pc = "loop"
  /\ LoopDone(idx, lines)
  /\ output' = Append(output, <<"T", "o", "t", "a", "l", " ", "i", "n", "s", "e", "r", "t", "i", "o", "n", "s", ":", " ">> \o Str(total_insertions))
  /\ pc' = "print_deletions"
  /\ UNCHANGED <<env, result, lines, idx, total_insertions, total_deletions>>

PrintDeletions ==
  /\ pc = "print_deletions"
  /\ output' = Append(output, <<"T", "o", "t", "a", "l", " ", "d", "e", "l", "e", "t", "i", "o", "n", "s", ":", " ">> \o Str(total_deletions))
  /\ pc' = "print_net"
  /\ UNCHANGED <<env, result, lines, idx, total_insertions, total_deletions>>

PrintNet ==
  /\ pc = "print_net"
  /\ output' = Append(output, <<"N", "e", "t", " ", "c", "h", "a", "n", "g", "e", ":", " ">>
                              \o Str(NetChange(total_insertions, total_deletions)))
  /\ pc' = "done"
  /\ UNCHANGED <<env, result, lines, idx, total_insertions, total_deletions>>

Next ==
  \/ RunRaises
  \/ Run
  \/ ScanLine
  \/ PrintInsertions
  \/ PrintDeletions
  \/ PrintNet

Spec == Init /\ [][Next]_vars

\* the interpreter keeps executing statements until the program ends
FairSpec == Spec /\ WF_vars(Next)

\* ------------------------------------------------- what the claims refer to
\* the counts of the phrases of one kind in a log line, left to right
PhraseNs(desc, kind) ==
  LET OfKind(piece) == piece.k = kind
  IN [j \in 1..Len(SelectSeq(desc, OfKind)) |-> SelectSeq(desc, OfKind)[j].n]

RECURSIVE SumPrefix(_, _)
SumPrefix(ns, k) == IF k = 0 THEN 0 ELSE SumPrefix(ns, k - 1) + ns[k]

SumSeq(ns) == SumPrefix(ns, Len(ns))

\* the log line behind lines[k]; the text after the last newline has none
DescOf(k) == IF k <= Len(history) THEN history[k] ELSE <<>>

AllNs(kind) == Concat([j \in 1..Len(history) |-> PhraseNs(history[j], kind)])

AfterLoop == pc \in {"loop", "print_deletions", "print_net", "done"} /\ idx > Len(lines)

Scanning == pc = "loop" /\ idx <= Len(lines)

InvocationFails == tool # "ok" \/ ~is_repo

ScenarioA == <<<<Junk(<<"a", "b", "c", "1", "2", "3", " ", "m", "s", "g">>)>>, StatLine(1, <<5>>, <<2>>)>>
ScenarioB == <<<<Junk(<<"a", "b", "c", "1", "2", "3", " ", "m", "s", "g">>)>>, StatLine(1, <<1>>, <<>>)>>
ScenarioC == <<<<Junk(<<"a", "b", "c", "1", "2", "3", " ", "m", "s", "g">>)>>, StatLine(3, <<>>, <<10>>)>>
ScenarioE == <<<<Junk(<<"a", "b", "c", "1", "2", "3", " ", "m", "s", "g">>)>>>>

\* the amount a line adds when the pattern alone decides
InsAmount(line) ==
  CHOOSE r \in {IF m = <<>> THEN 0 ELSE int(m[1]) :
                  m \in {search(line, insertion, PlusSuffix)}} : TRUE

DelAmount(line) ==
  CHOOSE r \in {IF m = <<>> THEN 0 ELSE int(m[1]) :
                  m \in {search(line, deletion, MinusSuffix)}} : TRUE

\* what each element of lines adds when the pre-checks are left out
InsAmounts == [j \in 1..Len(lines) |-> InsAmount(lines[j])]
DelAmounts == [j \in 1..Len(lines) |-> DelAmount(lines[j])]

\* the totals of each element of lines scanned alone
Singles == [j \in 1..Len(lines) |-> aggregate(<<lines[j]>>)]

Summary(ti, td) ==
  << <<"T", "o", "t", "a", "l", " ", "i", "n", "s", "e", "r", "t", "i", "o", "n", "s", ":", " ">> \o Str(ti),
     <<"T", "o", "t", "a", "l", " ", "d", "e", "l", "e", "t", "i", "o", "n", "s", ":", " ">> \o Str(td),
     <<"N", "e", "t", " ", "c", "h", "a", "n", "g", "e", ":", " ">> \o Str(ti - td) >>

IsPrefix(s, t) == Len(s) <= Len(t) /\ s = SubSeq(t, 1, Len(s))

Reverse(s) == [j \in 1..Len(s) |-> s[Len(s) + 1 - j]]

\* ------------------------------------------------------------------ C1
\* C1: whenever the history command cannot be started or exits unsuccessfully
\* (not a repository), the run ends in an error and prints no summary line.
C1_InvocationFailureFatal ==
  InvocationFails => (output = <<>> /\ pc # "done")

\* ------------------------------------------------------------------ C2
\* C2: a successful run prints exactly the three lines "Total insertions: ti",
\* "Total deletions: td", "Net change: ti - td", in this order and nothing
\* else, ti and td being the counters after the whole Report was scanned;
\* totals (0, 10) print a net change of -10.
C2_ThreeLineSummary ==
  /\ IsPrefix(output, Summary(total_insertions, total_deletions))
  /\ output # <<>> => AfterLoop
  /\ pc = "done" => output = Summary(total_insertions, total_deletions)
  /\ (pc = "done" /\ history = ScenarioA) =>
        output = << <<"T", "o", "t", "a", "l", " ", "i", "n", "s", "e", "r", "t", "i", "o", "n", "s", ":", " ", "5">>, <<"T", "o", "t", "a", "l", " ", "d", "e", "l", "e", "t", "i", "o", "n", "s", ":", " ", "2">>, <<"N", "e", "t", " ", "c", "h", "a", "n", "g", "e", ":", " ", "3">> >>
  /\ (pc = "done" /\ total_insertions = 0 /\ total_deletions = 10) =>
        output = << <<"T", "o", "t", "a", "l", " ", "i", "n", "s", "e", "r", "t", "i", "o", "n", "s", ":", " ", "0">>, <<"T", "o", "t", "a", "l", " ", "d", "e", "l", "e", "t", "i", "o", "n", "s", ":", " ", "1", "0">>, <<"N", "e", "t", " ", "c", "h", "a", "n", "g", "e", ":", " ", "-", "1", "0">> >>

C2_Witness ==
  /\ pc = "done"
  /\ history = ScenarioC
  /\ output = << <<"T", "o", "t", "a", "l", " ", "i", "n", "s", "e", "r", "t", "i", "o", "n", "s", ":", " ", "0">>, <<"T", "o", "t", "a", "l", " ", "d", "e", "l", "e", "t", "i", "o", "n", "s", ":", " ", "1", "0">>, <<"N", "e", "t", " ", "c", "h", "a", "n", "g", "e", ":", " ", "-", "1", "0">> >>

\* ------------------------------------------------------------------ C3
\* C3: when every log line holds at most one insertions phrase and at most one
\* deletions phrase (singular or plural), the final totals are the sums of the
\* phrases' numbers; Scenarios A, B, C give (5, 2), (1, 0), (0, 10).
C3_TotalsAreSums ==
  /\ (AfterLoop /\ \A j \in 1..Len(history) :
                      Len(PhraseNs(history[j], "ins")) <= 1
                      /\ Len(PhraseNs(history[j], "del")) <= 1)
       => \E ins \in {AllNs("ins")}, del \in {AllNs("del")} :
            /\ total_insertions = SumSeq(ins)
            /\ total_deletions = SumSeq(del)
  /\ (pc = "loop" /\ history = ScenarioA) =>
        lines = << <<"a", "b", "c", "1", "2", "3", " ", "m", "s", "g">>,
                   <<" ", "1", " ", "f", "i", "l", "e", " ", "c", "h", "a", "n", "g", "e", "d", ",", " ", "5", " ", "i", "n", "s", "e", "r", "t", "i", "o", "n", "s", "(", "+", ")", ",", " ", "2", " ", "d", "e", "l", "e", "t", "i", "o", "n", "s", "(", "-", ")">>, <<>> >>
  /\ (pc = "loop" /\ history = ScenarioB) =>
        lines = << <<"a", "b", "c", "1", "2", "3", " ", "m", "s", "g">>, <<" ", "1", " ", "f", "i", "l", "e", " ", "c", "h", "a", "n", "g", "e", "d", ",", " ", "1", " ", "i", "n", "s", "e", "r", "t", "i", "o", "n", "(", "+", ")">>, <<>> >>
  /\ (pc = "loop" /\ history = ScenarioC) =>
        lines = << <<"a", "b", "c", "1", "2", "3", " ", "m", "s", "g">>, <<" ", "3", " ", "f", "i", "l", "e", "s", " ", "c", "h", "a", "n", "g", "e", "d", ",", " ", "1", "0", " ", "d", "e", "l", "e", "t", "i", "o", "n", "s", "(", "-", ")">>, <<>> >>
  /\ (AfterLoop /\ history = ScenarioA) => total_insertions = 5 /\ total_deletions = 2
  /\ (AfterLoop /\ history = ScenarioB) => total_insertions = 1 /\ total_deletions = 0
  /\ (AfterLoop /\ history = ScenarioC) => total_insertions = 0 /\ total_deletions = 10

C3_Witness ==
  /\ pc = "done"
  /\ history = ScenarioB
  /\ total_insertions = 1
  /\ total_deletions = 0

\* ------------------------------------------------------------------ C4
\* C4: the totals of the whole Report are the component-wise sum of the totals
\* of each line scanned alone; the totals of a concatenation are the sum of the
\* totals of its parts, and reordering the lines does not change them.
PairSum(a, b) == <<a[1] + b[1], a[2] + b[2]>>

C4_Additivity ==
  pc = "done" =>
    /\ \E one \in {Singles} :
         /\ total_insertions = SumSeq([j \in 1..Len(one) |-> one[j][1]])
         /\ total_deletions = SumSeq([j \in 1..Len(one) |-> one[j][2]])
    /\ \A k \in 0..Len(lines) :
         <<total_insertions, total_deletions>> =
           PairSum(aggregate(SubSeq(lines, 1, k)),
                   aggregate(SubSeq(lines, k + 1, Len(lines))))
    /\ \E rev \in {Reverse(lines)} :
         aggregate(rev) = <<total_insertions, total_deletions>>

C4_Witness ==
  /\ pc = "done"
  /\ Len(lines) >= 3
  /\ \E one \in {Singles} :
       /\ one[1][1] > 0
       /\ one[2][1] > 0
       /\ one[1][1] # one[2][1]
       /\ total_insertions = one[1][1] + one[2][1]

\* ------------------------------------------------------------------ C5
\* C5: scanning a line that holds no insertions (deletions) phrase leaves
\* total_insertions (total_deletions) unchanged and raises no error, also when
\* the line passes the substring pre-check; a Report without any phrase, the
\* empty one included, ends with totals (0, 0), net change 0 and the summary
\* printed.
C5_NoMatchNoChange ==
  /\ [][Scanning =>
          /\ PhraseNs(DescOf(idx), "ins") = <<>> => total_insertions' = total_insertions
          /\ PhraseNs(DescOf(idx), "del") = <<>> => total_deletions' = total_deletions
          /\ pc' # "failed"]_vars
  /\ []((pc = "done" /\ (history \in {<<>>, ScenarioE}
                          \/ (AllNs("ins") = <<>> /\ AllNs("del") = <<>>))) =>
          /\ total_insertions = 0
          /\ total_deletions = 0
          /\ output = << <<"T", "o", "t", "a", "l", " ", "i", "n", "s", "e", "r", "t", "i", "o", "n", "s", ":", " ", "0">>, <<"T", "o", "t", "a", "l", " ", "d", "e", "l", "e", "t", "i", "o", "n", "s", ":", " ", "0">>, <<"N", "e", "t", " ", "c", "h", "a", "n", "g", "e", ":", " ", "0">> >>)

C5_Witness ==
  /\ pc = "done"
  /\ is_repo
  /\ \E k \in 1..Len(lines) :
       /\ InsertionsPreCheck(lines[k]) /\ search(lines[k], insertion, PlusSuffix) = <<>>
       /\ DeletionsPreCheck(lines[k]) /\ search(lines[k], deletion, MinusSuffix) = <<>>
  /\ total_insertions = 0
  /\ total_deletions = 0
  /\ Len(output) = 3

\* ------------------------------------------------------------------ C6
\* C6: both counters start at 0, are non-negative integers in every state and
\* never decrease from one step to the next.
C6_CountersMonotone ==
  /\ total_insertions = 0 /\ total_deletions = 0
  /\ [](total_insertions \in Nat /\ total_deletions \in Nat)
  /\ [][total_insertions' >= total_insertions /\ total_deletions' >= total_deletions]_vars

C6_Witness ==
  /\ pc = "loop"
  /\ idx = 3
  /\ \E first \in {aggregate(<<lines[1]>>)} :
       /\ first[2] > 0
       /\ total_deletions > first[2]
  /\ total_insertions > 0

\* ------------------------------------------------------------------ C7
\* C7: the amount a scanned line adds to total_insertions is decided by the
\* insertions pattern alone and the amount added to total_deletions by the
\* deletions pattern alone; one line can raise both totals, one or neither.
C7_IndependentKinds ==
  [][Scanning =>
       /\ total_insertions' - total_insertions = InsAmount(lines[idx])
       /\ total_deletions' - total_deletions = DelAmount(lines[idx])]_vars

C7_Witness ==
  /\ pc = "loop"
  /\ idx = 2
  /\ total_insertions > 0
  /\ total_deletions > 0

\* ------------------------------------------------------------------ C8
\* C8: no summary line is printed before every line of the Report was scanned
\* once, in order; every run ends either with the three-line summary printed
\* or failed by the invocation with nothing printed.
C8_NoPartialResult ==
  /\ [](output # <<>> => (idx = Len(lines) + 1 /\ pc \in {"print_deletions", "print_net", "done"}))
  /\ [](pc = "failed" => (tool # "ok" /\ output = <<>>))
  /\ [][/\ idx' # idx => (Scanning /\ idx' = idx + 1 /\ output = <<>>)
        /\ lines' # lines => pc = "start"]_vars
  /\ <>(\/ pc = "done" /\ Len(output) = 3 /\ idx = Len(lines) + 1
        \/ pc = "failed" /\ output = <<>>)

C8_Witness ==
  /\ pc = "done"
  /\ Len(output) = 3
  /\ Len(lines) = MaxLines + 1
  /\ idx = Len(lines) + 1

\* ------------------------------------------------------------------ C9
\* C9: with the substring pre-checks removed the program reaches the same
\* totals after every scanned line and prints the same output; every line a
\* pattern matches passes the pre-check of its kind.
C9_PreCheckRedundant ==
  pc \in {"loop", "print_deletions", "print_net", "done"} =>
    /\ \E ins \in {InsAmounts}, del \in {DelAmounts} :
         /\ total_insertions = SumPrefix(ins, idx - 1)
         /\ total_deletions = SumPrefix(del, idx - 1)
         /\ \E ti \in {SumSeq(ins)}, td \in {SumSeq(del)} : IsPrefix(output, Summary(ti, td))
    /\ \A k \in 1..Len(lines) :
         /\ search(lines[k], insertion, PlusSuffix) # <<>> => InsertionsPreCheck(lines[k])
         /\ search(lines[k], deletion, MinusSuffix) # <<>> => DeletionsPreCheck(lines[k])

C9_Witness ==
  /\ pc = "done"
  /\ total_insertions = 1
  /\ \E k \in 1..Len(lines) :
       InsertionsPreCheck(lines[k]) /\ search(lines[k], insertion, PlusSuffix) = <<>>

\* ------------------------------------------------------------------ C10
\* C10: a scanned line adds to each total the number of its leftmost phrase of
\* that kind and nothing for the later ones, so each counter changes at most
\* once per line.
C10_LeftmostOnly ==
  [][Scanning =>
       LET ins == PhraseNs(DescOf(idx), "ins")
           del == PhraseNs(DescOf(idx), "del")
       IN /\ total_insertions' = total_insertions + (IF ins = <<>> THEN 0 ELSE ins[1])
          /\ total_deletions' = total_deletions + (IF del = <<>> THEN 0 ELSE del[1])]_vars

C10_Witness ==
  /\ pc = "loop"
  /\ idx = 2
  /\ Len(history) >= 1
  /\ Len(PhraseNs(history[1], "del")) >= 2
  /\ total_deletions = PhraseNs(history[1], "del")[1]
  /\ PhraseNs(history[1], "del")[2] > 0
====
